---- MODULE Spec2Model ----
(***************************************************************************)
(* A model of app.py: the Streamlit script that reads an uploaded PDF,     *)
(* segments its text into sentences and runs perform_general_extraction,   *)
(* which appends rows {"#", Key, Value, Comments} to FINAL_DATA_ROWS.      *)
(*                                                                         *)
(* Python strings are TLA+ strings (Len, SubSeq and \o act on them), an    *)
(* optional value (None or a value) is a sequence of length 0 or 1, and a  *)
(* regular-expression match is None or Some(<<group 1, group 2, ...>>).    *)
(***************************************************************************)
EXTENDS Integers, Sequences, FiniteSets, TLC

VARIABLES
    pc,               \* position of the script run
    nlp_model,        \* the loaded entity recogniser (line 36), fixed after loading
    uploaded_file,    \* None, or the uploaded PDF: [readable, pages]
    raw_text,         \* None, or the text read from the PDF
    sentences,        \* the sentence list of the run
    FINAL_DATA_ROWS,  \* the rows emitted by the run
    ROW_COUNTER,      \* the "#" of the next row
    cert_i,           \* certification loop: index of the next candidate sentence
    cert_counter,     \* certification loop: number of the next certification
    seen_certs,       \* certification loop: entity texts already emitted
    ui,               \* what the page shows: "", "error", "success" or "warning"
    exc,              \* the uncaught exception that ended the run, or ""
    last_output,      \* history: None, or the outcome of the previous run on this upload
    fs_sentences,     \* find_sentence call: argument sentences
    fs_keywords,      \* find_sentence call: argument keywords
    fs_result         \* find_sentence call: None before the call, Some(return value) after

vars == <<pc, nlp_model, uploaded_file, raw_text, sentences, FINAL_DATA_ROWS,
          ROW_COUNTER, cert_i, cert_counter, seen_certs, ui, exc, last_output,
          fs_sentences, fs_keywords, fs_result>>

(***************************************************************************)
(* Bounds of the model.                                                    *)
(***************************************************************************)
MaxPages == 2
MaxFindSents == 2
MaxKeywords == 2

(***************************************************************************)
(* Optional values and Python truthiness.                                  *)
(***************************************************************************)
None == <<>>

Some(x) == <<x>>

\* bool(x) of an optional string: None and "" are falsy.
Truthy(o) == o # None /\ o[1] # ""

\* Python's `a or b` on optional strings.
Or(a, b) == IF Truthy(a) THEN a ELSE b

Least(S) == CHOOSE x \in S : \A y \in S : x <= y

(***************************************************************************)
(* Characters and strings.                                                 *)
(***************************************************************************)
UpperAlpha == "ABCDEFGHIJKLMNOPQRSTUVWXYZ"

LowerAlpha == "abcdefghijklmnopqrstuvwxyz"

DigitAlpha == "0123456789"

Upper == {SubSeq(UpperAlpha, i, i) : i \in 1..Len(UpperAlpha)}

Lower == {SubSeq(LowerAlpha, i, i) : i \in 1..Len(LowerAlpha)}

Digit == {SubSeq(DigitAlpha, i, i) : i \in 1..Len(DigitAlpha)}

\* \s of the re module
Space == {" ", "\t", "\n", "\r", "\f"}

ToLower == [c \in Upper |->
              SubSeq(LowerAlpha, CHOOSE i \in 1..Len(UpperAlpha) : SubSeq(UpperAlpha, i, i) = c,
                                 CHOOSE i \in 1..Len(UpperAlpha) : SubSeq(UpperAlpha, i, i) = c)]

\* s[i] (1-based), "" outside the string
Ch(s, i) == IF i >= 1 /\ i <= Len(s) THEN SubSeq(s, i, i) ELSE ""

\* s[i-1:] in Python's 0-based terms: the suffix from the 1-based position i
From(s, i) == SubSeq(s, i, Len(s))

RECURSIVE LowerAt(_, _)
\* s with the characters at the positions ups mapped to lower case
LowerAt(s, ups) ==
    IF ups = {} THEN s
    ELSE LET i == Least(ups)
         IN LowerAt(SubSeq(s, 1, i - 1) \o ToLower[SubSeq(s, i, i)] \o From(s, i + 1), ups \ {i})

\* str.lower(): every upper-case character mapped, the others kept
lower(s) == LowerAt(s, {i \in 1..Len(s) : SubSeq(s, i, i) \in Upper})

\* the literal lit occurs in s at position i
LitAt(s, i, lit) ==
    /\ i >= 1
    /\ i + Len(lit) - 1 <= Len(s)
    /\ SubSeq(s, i, i + Len(lit) - 1) = lit

\* the literal lit occurs in s at position i, under re.IGNORECASE when ic
LitAtIC(s, i, lit, ic) ==
    /\ i >= 1
    /\ i + Len(lit) - 1 <= Len(s)
    /\ IF ic THEN lower(SubSeq(s, i, i + Len(lit) - 1)) = lower(lit)
             ELSE SubSeq(s, i, i + Len(lit) - 1) = lit

\* `sub in s`
Contains(s, sub) == \E i \in 1..(Len(s) - Len(sub) + 1) : LitAt(s, i, sub)

\* s.find(sub), 1-based: 0 where Python returns -1
Find(s, sub) ==
    IF Contains(s, sub)
    THEN Least({i \in 1..(Len(s) - Len(sub) + 1) : LitAt(s, i, sub)})
    ELSE 0

RECURSIVE LStrip(_)
LStrip(s) == IF s # "" /\ SubSeq(s, 1, 1) \in Space THEN LStrip(From(s, 2)) ELSE s

RECURSIVE RStrip(_)
RStrip(s) ==
    IF s # "" /\ SubSeq(s, Len(s), Len(s)) \in Space THEN RStrip(SubSeq(s, 1, Len(s) - 1)) ELSE s

\* str.strip()
strip(s) == RStrip(LStrip(s))

RECURSIVE split(_)
\* str.split(): the whitespace-separated tokens
split(s) ==
    LET t == LStrip(s)
        spaces == {i \in 1..Len(t) : SubSeq(t, i, i) \in Space}
    IN IF t = "" THEN <<>>
       ELSE IF spaces = {} THEN <<t>>
       ELSE <<SubSeq(t, 1, Least(spaces) - 1)>> \o split(From(t, Least(spaces)))

RECURSIVE join(_, _)
\* sep.join(parts)
join(sep, parts) ==
    IF parts = <<>> THEN ""
    ELSE IF Len(parts) = 1 THEN parts[1]
    ELSE parts[1] \o sep \o join(sep, Tail(parts))

RECURSIVE replace(_, _, _)
\* s.replace(old, new), old non-empty: the occurrences from left to right
replace(s, old, new) ==
    IF Find(s, old) = 0 THEN s
    ELSE SubSeq(s, 1, Find(s, old) - 1) \o new \o replace(From(s, Find(s, old) + Len(old)), old, new)

\* s.split(sep)[-1]: what follows the last occurrence of sep, or s itself
AfterLast(s, sep) ==
    IF Contains(s, sep)
    THEN LET i == CHOOSE k \in 1..Len(s) : LitAt(s, k, sep) /\ \A j \in (k + 1)..Len(s) : ~LitAt(s, j, sep)
         IN From(s, i + Len(sep))
    ELSE s

RECURSIVE RunEnd(_, _, _)
\* the last position of the maximal run of characters of Cls that starts at i (i-1: no run)
RunEnd(s, i, Cls) == IF Ch(s, i) \in Cls THEN RunEnd(s, i + 1, Cls) ELSE i - 1

\* \d{n} at position i
DigitsAt(s, i, n) == \A k \in i..(i + n - 1) : Ch(s, k) \in Digit

\* [A-Z][a-z]+ at position i: the last position of the match, 0 when there is none
CapWordEnd(s, i) ==
    IF Ch(s, i) \in Upper /\ Ch(s, i + 1) \in Lower THEN RunEnd(s, i + 1, Lower) ELSE 0

(***************************************************************************)
(* re.search for the patterns of perform_general_extraction.  Each         *)
(* operator returns the leftmost match as Some(<<groups>>), or None.  In   *)
(* every pattern a greedy class run is followed by a character outside     *)
(* the class, so the run a match uses is the maximal one.                  *)
(***************************************************************************)

\* prefix(.*?)(?:t1|t2|...): the first prefix that a terminator follows; the
\* group ends before the earliest terminator ('.' does not match a newline).
SearchLazy(s, prefix, terms, ic) ==
    LET TermAt(j) == \E t \in terms : LitAtIC(s, j, t, ic)
        Ok(i) == /\ LitAtIC(s, i, prefix, ic)
                 /\ \E j \in (i + Len(prefix))..Len(s) :
                       /\ TermAt(j)
                       /\ \A k \in (i + Len(prefix))..(j - 1) : Ch(s, k) # "\n"
        starts == {i \in 1..Len(s) : Ok(i)}
    IN IF starts = {} THEN None
       ELSE LET b == Least(starts) + Len(prefix)
                j == Least({k \in b..Len(s) : TermAt(k)})
            IN Some(<<SubSeq(s, b, j - 1)>>)

\* prefix(\d{4})
SearchYear(s, prefix) ==
    LET starts == {i \in 1..Len(s) : LitAt(s, i, prefix) /\ DigitsAt(s, i + Len(prefix), 4)}
    IN IF starts = {} THEN None
       ELSE LET b == Least(starts) + Len(prefix) IN Some(<<SubSeq(s, b, b + 3)>>)

\* prefix([\d,]+)\s([A-Z]{3})
SearchAmount(s, prefix) ==
    LET DigitComma == Digit \cup {","}
        Ok(i) == LET b == i + Len(prefix)
                     e == RunEnd(s, b, DigitComma)
                 IN /\ LitAt(s, i, prefix)
                    /\ e >= b
                    /\ Ch(s, e + 1) \in Space
                    /\ \A k \in (e + 2)..(e + 4) : Ch(s, k) \in Upper
        starts == {i \in 1..Len(s) : Ok(i)}
    IN IF starts = {} THEN None
       ELSE LET b == Least(starts) + Len(prefix)
                e == RunEnd(s, b, DigitComma)
            IN Some(<<SubSeq(s, b, e), SubSeq(s, e + 2, e + 4)>>)

\* r'(\d{4}-\d{2}-\d{2})'
re_iso_date(s) ==
    LET Ok(i) == /\ DigitsAt(s, i, 4) /\ Ch(s, i + 4) = "-"
                 /\ DigitsAt(s, i + 5, 2) /\ Ch(s, i + 7) = "-"
                 /\ DigitsAt(s, i + 8, 2)
        starts == {i \in 1..Len(s) : Ok(i)}
    IN IF starts = {} THEN None
       ELSE Some(<<SubSeq(s, Least(starts), Least(starts) + 9)>>)

\* r'in ([A-Z][a-z]+), ([A-Z][a-z]+)'
re_birth_place(s) ==
    LET Ok(i) == LET e1 == CapWordEnd(s, i + 3)
                 IN /\ LitAt(s, i, "in ")
                    /\ e1 # 0
                    /\ LitAt(s, e1 + 1, ", ")
                    /\ CapWordEnd(s, e1 + 3) # 0
        starts == {i \in 1..Len(s) : Ok(i)}
    IN IF starts = {} THEN None
       ELSE LET i == Least(starts)
                e1 == CapWordEnd(s, i + 3)
            IN Some(<<SubSeq(s, i + 3, e1), SubSeq(s, e1 + 3, CapWordEnd(s, e1 + 3))>>)

\* r'(\d+)\s+years old'
re_age(s) ==
    LET Ok(i) == LET e == RunEnd(s, i, Digit)
                     w == RunEnd(s, e + 1, Space)
                 IN e >= i /\ w >= e + 1 /\ LitAt(s, w + 1, "years old")
        starts == {i \in 1..Len(s) : Ok(i)}
    IN IF starts = {} THEN None
       ELSE Some(<<SubSeq(s, Least(starts), RunEnd(s, Least(starts), Digit))>>)

\* r'([A-Z][\+\-])\s+blood group' with first == Upper, r'(O[\+\-])\s+blood group' with first == {"O"}
re_blood_group(s, first) ==
    LET Ok(i) == LET w == RunEnd(s, i + 2, Space)
                 IN /\ Ch(s, i) \in first
                    /\ Ch(s, i + 1) \in {"+", "-"}
                    /\ w >= i + 2
                    /\ LitAt(s, w + 1, "blood group")
        starts == {i \in 1..Len(s) : Ok(i)}
    IN IF starts = {} THEN None
       ELSE Some(<<SubSeq(s, Least(starts), Least(starts) + 1)>>)

\* r'([A-Z][a-z]+)\s+national'
re_nationality(s) ==
    LET Ok(i) == LET e == CapWordEnd(s, i)
                     w == RunEnd(s, e + 1, Space)
                 IN e # 0 /\ w >= e + 1 /\ LitAt(s, w + 1, "national")
        starts == {i \in 1..Len(s) : Ok(i)}
    IN IF starts = {} THEN None
       ELSE Some(<<SubSeq(s, Least(starts), CapWordEnd(s, Least(starts)))>>)

\* r'([\d.]+%?) overall'
re_score(s) ==
    LET DigitDot == Digit \cup {"."}
        \* the last position of group 1 of a match that starts at i, 0 when there is none
        GroupEnd(i) == LET e == RunEnd(s, i, DigitDot)
                       IN IF e < i THEN 0
                          ELSE IF Ch(s, e + 1) = "%" /\ LitAt(s, e + 2, " overall") THEN e + 1
                          ELSE IF LitAt(s, e + 1, " overall") THEN e
                          ELSE 0
        starts == {i \in 1..Len(s) : GroupEnd(i) # 0}
    IN IF starts = {} THEN None
       ELSE Some(<<SubSeq(s, Least(starts), GroupEnd(Least(starts)))>>)

(***************************************************************************)
(* The entity recogniser.  nlp = load_models() is an opaque pretrained     *)
(* model; it is modelled by a small family of deterministic recognisers.   *)
(* A recogniser tags the words of a lexicon, merges adjacent words of one  *)
(* label into one span, returns the spans in text order, and raises on     *)
(* the texts that contain its fault trigger (None: it never raises).       *)
(***************************************************************************)
Lexicon ==
    [w \in {"John", "Smith", "Madonna"} |-> "PERSON"] @@
    [w \in {"Jaipur", "Rajasthan", "India"} |-> "GPE"] @@
    [w \in {"Infosys", "Wipro", "Solutions", "DPS", "IIT", "Delhi", "IISc",
            "AWS", "Microsoft", "Google", "Oracle", "PMI"} |-> "ORG"] @@
    [w \in {"Azure", "Python"} |-> "PRODUCT"] @@
    [w \in {"Indian"} |-> "NORP"]

NlpModels ==
    { [fault_on |-> None],
      [fault_on |-> Some("")],
      [fault_on |-> Some("certification")] }

Ent(text, label) == [text |-> text, label_ |-> label]

RECURSIVE WordOf(_)
\* a token without its trailing punctuation
WordOf(tok) ==
    IF tok # "" /\ SubSeq(tok, Len(tok), Len(tok)) \in {",", ".", ";", ":"}
    THEN WordOf(SubSeq(tok, 1, Len(tok) - 1))
    ELSE tok

RECURSIVE TagTokens(_, _, _)
\* the spans of the remaining tokens; (curText, curLabel) is the span being built ("O": none)
TagTokens(tokens, curText, curLabel) ==
    LET flush == IF curLabel = "O" THEN <<>> ELSE <<Ent(curText, curLabel)>>
    IN IF tokens = <<>> THEN flush
       ELSE LET tok == Head(tokens)
                word == WordOf(tok)
                lab == IF word \in DOMAIN Lexicon THEN Lexicon[word] ELSE "O"
                text == IF lab = curLabel THEN curText \o " " \o word ELSE word
                before == IF lab = curLabel THEN <<>> ELSE flush
            IN IF lab = "O" THEN flush \o TagTokens(Tail(tokens), "", "O")
               ELSE IF tok # word
                    THEN before \o <<Ent(text, lab)>> \o TagTokens(Tail(tokens), "", "O")
                    ELSE before \o TagTokens(Tail(tokens), text, lab)

\* nlp(text): [raised, ents]; ents are doc.ents as (ent.text, ent.label_) in text order
nlp(text) ==
    IF nlp_model.fault_on # None /\ Contains(text, nlp_model.fault_on[1])
    THEN [raised |-> TRUE, ents |-> <<>>]
    ELSE [raised |-> FALSE,
          ents |-> TagTokens(split(text), "", "O")]

\* [ent.text for ent in ents if ent.label_ in labels]
EntTexts(ents, labels) ==
    LET idx == {i \in 1..Len(ents) : ents[i].label_ \in labels}
        F[n \in 0..Len(ents)] ==
            IF n = 0 THEN <<>>
            ELSE IF n \in idx THEN Append(F[n - 1], ents[n].text) ELSE F[n - 1]
    IN F[Len(ents)]

(***************************************************************************)
(* 2. UTILITY FUNCTIONS                                                    *)
(***************************************************************************)

RECURSIVE PagesText(_)
\* the loop of extract_text_from_uploaded_file: text += page.extract_text() + "\n"
PagesText(pages) ==
    IF pages = <<>> THEN "" ELSE Head(pages) \o "\n" \o PagesText(Tail(pages))

\* None when PdfReader raises (the handler reports the error), else the text of the pages
extract_text_from_uploaded_file(file) ==
    IF file.readable THEN Some(PagesText(file.pages)) ELSE None

RECURSIVE re_sub_newlines(_)
\* re.sub(r'\s*\n\s*', ' ', s): every whitespace run that holds a newline becomes one space
re_sub_newlines(s) ==
    LET n == Find(s, "\n")
        \* the whitespace run around the first newline
        a == Least({i \in 1..n : \A k \in i..n : Ch(s, k) \in Space})
        e == RunEnd(s, n, Space)
    IN IF n = 0 THEN s
       ELSE SubSeq(s, 1, a - 1) \o " " \o re_sub_newlines(From(s, e + 1))

RECURSIVE sent_tokenize(_)
\* nltk's sent_tokenize, modelled by its rule on plain prose: a sentence ends at '.', '?'
\* or '!' followed by whitespace and a capital letter; the empty text has no sentence.
sent_tokenize(text) ==
    LET ends == {i \in 1..Len(text) :
                   /\ SubSeq(text, i, i) \in {".", "?", "!"}
                   /\ RunEnd(text, i + 1, Space) >= i + 1
                   /\ Ch(text, RunEnd(text, i + 1, Space) + 1) \in Upper}
    IN IF text = "" THEN <<>>
       ELSE IF ends = {} THEN <<text>>
       ELSE <<SubSeq(text, 1, Least(ends))>>
            \o sent_tokenize(From(text, RunEnd(text, Least(ends) + 1, Space) + 1))

clean_and_segment_text(text) ==
    LET cleaned_text == replace(text, "-\n", "")
    IN sent_tokenize(strip(re_sub_newlines(cleaned_text)))

RECURSIVE find_sentence_any(_, _)
\* find_sentence with any() in place of all()
find_sentence_any(sents, keywords) ==
    IF sents = <<>> THEN None
    ELSE IF \E n \in 1..Len(keywords) : Contains(lower(sents[1]), lower(keywords[n]))
         THEN Some(sents[1])
         ELSE find_sentence_any(Tail(sents), keywords)

RECURSIVE find_sentence(_, _)
find_sentence(sents, keywords) ==
    IF sents = <<>> THEN None
    ELSE IF \A n \in 1..Len(keywords) : Contains(lower(sents[1]), lower(keywords[n]))
         THEN Some(sents[1])
         ELSE find_sentence(Tail(sents), keywords)

\* [raised, value]: value is ents[0] of the label, or None
get_entity(text, label) ==
    LET doc == nlp(text)
        ents == EntTexts(doc.ents, {label})
    IN [raised |-> doc.raised,
        value |-> IF doc.raised \/ ents = <<>> THEN None ELSE Some(ents[1])]

Row(n, key, value, comment) ==
    ("#" :> n) @@ ("Key" :> key) @@ ("Value" :> value) @@ ("Comments" :> comment)

\* add_data_row without its `ROW_COUNTER += 1`
add_data_row_no_increment(g, key, value, comment) ==
    [FINAL_DATA_ROWS |-> Append(g.FINAL_DATA_ROWS, Row(g.ROW_COUNTER, key, value, comment)),
     ROW_COUNTER |-> g.ROW_COUNTER]

\* add_data_row on the globals g = [FINAL_DATA_ROWS, ROW_COUNTER]
add_data_row(g, key, value, comment) ==
    [FINAL_DATA_ROWS |-> Append(g.FINAL_DATA_ROWS, Row(g.ROW_COUNTER, key, value, comment)),
     ROW_COUNTER |-> g.ROW_COUNTER + 1]

(***************************************************************************)
(* 3. CORE EXTRACTION LOGIC                                                *)
(* perform_general_extraction, one operator per block of the function.     *)
(* A block yields [emits, exc]: the add_data_row calls <<key, value,       *)
(* comment>> it makes, in order, and the exception that ends it ("" when   *)
(* it completes).                                                          *)
(***************************************************************************)
Done(emits) == [emits |-> emits, exc |-> ""]

Raised(emits, e) == [emits |-> emits, exc |-> e]

\* " ".join(sentences)
full_text_of(sents) == join(" ", sents)

\* lines 86-92
NameBlock(sents) ==
    LET found == find_sentence(sents, <<"born">>)
    IN IF ~Truthy(found) /\ sents = <<>> THEN Raised(<<>>, "IndexError")
       ELSE LET intro_sent == IF Truthy(found) THEN found[1] ELSE sents[1]
                doc == nlp(intro_sent)
                person_ents == EntTexts(doc.ents, {"PERSON"})
                name_parts == split(person_ents[1])
            IN IF doc.raised THEN Raised(<<>>, "NlpError")
               ELSE IF person_ents = <<>> THEN Done(<<>>)
               ELSE IF name_parts = <<>> THEN Raised(<<>>, "IndexError")
               ELSE Done(<< <<"First Name", name_parts[1], "">>,
                            <<"Last Name", name_parts[Len(name_parts)], "">> >>)

\* lines 94-96
DobBlock(sents) ==
    LET dob_match == re_iso_date(full_text_of(sents))
    IN IF dob_match # None THEN Done(<< <<"Date of Birth", dob_match[1][1], "">> >>)
       ELSE Done(<<>>)

\* lines 98-104
BirthBlock(sents) ==
    LET born_sent == find_sentence(sents, <<"born", "in">>)
        loc_match == re_birth_place(born_sent[1])
        context == Or(find_sentence(sents, <<"birthplace", "context">>), born_sent)[1]
    IN IF Truthy(born_sent) /\ loc_match # None
       THEN Done(<< <<"Birth City", loc_match[1][1], context>>,
                    <<"Birth State", loc_match[1][2], context>> >>)
       ELSE Done(<<>>)

\* lines 106-112
AgeBlock(sents) ==
    LET age_sent == find_sentence(sents, <<"years old">>)
        age_match == re_age(age_sent[1])
        found == Or(find_sentence(sents, <<"demographic", "marker">>), age_sent)[1]
        context == IF ~Contains(found, "As on year") THEN "As on year 2024. " \o found ELSE found
    IN IF Truthy(age_sent) /\ age_match # None
       THEN Done(<< <<"Age", age_match[1][1] \o " years", context>> >>)
       ELSE Done(<<>>)

\* lines 114-118
BloodBlock(sents) ==
    LET blood_sent == find_sentence(sents, <<"blood group">>)
        first == re_blood_group(blood_sent[1], Upper)
        bg_match == IF first # None THEN first ELSE re_blood_group(blood_sent[1], {"O"})
    IN IF Truthy(blood_sent) /\ bg_match # None
       THEN Done(<< <<"Blood Group", bg_match[1][1], "Emergency contact purposes.">> >>)
       ELSE Done(<<>>)

\* lines 120-124
NationalityBlock(sents) ==
    LET nat_sent == Or(find_sentence(sents, <<"national">>), find_sentence(sents, <<"citizen">>))
        nat_match == re_nationality(nat_sent[1])
        nationality == IF nat_match # None THEN nat_match[1][1] ELSE "Unknown"
    IN IF Truthy(nat_sent)
       THEN Done(<< <<"Nationality", nationality,
                      "Citizenship status is important for understanding his work authorization and visa requirements.">> >>)
       ELSE Done(<<>>)

\* lines 127-136
FirstRoleBlock(sents) ==
    LET first_role_sent == Or(find_sentence(sents, <<"began">>),
                              find_sentence(sents, <<"first company">>))
        role_match == SearchLazy(first_role_sent[1], "as a ", {" with", ","}, FALSE)
        sal_match == SearchAmount(first_role_sent[1], "salary of ")
    IN IF Truthy(first_role_sent)
       THEN Done(<< <<"Joining Date of first professional role", "2012-07-01", "">> >>
                 \o (IF role_match # None
                     THEN << <<"Designation of first professional role", strip(role_match[1][1]), "">> >>
                     ELSE <<>>)
                 \o (IF sal_match # None
                     THEN << <<"Salary of first professional role", sal_match[1][1], "">>,
                             <<"Salary currency of first professional role", sal_match[1][2], "">> >>
                     ELSE <<>>))
       ELSE Done(<<>>)

\* lines 138-151
CurrentBlock(sents) ==
    LET curr_sent == find_sentence(sents, <<"current", "earning">>)
        org == get_entity(curr_sent[1], "ORG")
        role_match == SearchLazy(curr_sent[1], "serves as a ", {" earning"}, FALSE)
        sal_match == SearchAmount(curr_sent[1], "earning ")
        found == Or(find_sentence(sents, <<"salary progression">>), Some(""))[1]
        prog_context == IF found # ""
                        THEN "This salary progression "
                             \o strip(AfterLast(found, "This salary progression"))
                        ELSE found
    IN IF ~Truthy(curr_sent) THEN Done(<<>>)
       ELSE IF org.raised THEN Raised(<<>>, "NlpError")
       ELSE Done(<< <<"Current Organization", IF Truthy(org.value) THEN org.value[1] ELSE "Unknown", "">>,
                    <<"Current Joining Date", "2021-06-15", "">> >>
                 \o (IF role_match # None
                     THEN << <<"Current Designation", strip(role_match[1][1]), "">> >>
                     ELSE <<>>)
                 \o (IF sal_match # None
                     THEN << <<"Current Salary", sal_match[1][1], prog_context>>,
                             <<"Current Salary Currency", sal_match[1][2], "">> >>
                     ELSE <<>>))

\* lines 153-163
PreviousBlock(sents) ==
    LET prev_sent == find_sentence(sents, <<"worked at">>)
        org_match == SearchLazy(prev_sent[1], "worked at ", {" from", " solutions"}, TRUE)
        end_year_match == SearchYear(prev_sent[1], "to ")
        prev_role_match == SearchLazy(prev_sent[1], "starting as a ", {" and"}, FALSE)
    IN IF Truthy(prev_sent)
       THEN Done(<< <<"Previous Organization",
                      IF org_match # None THEN strip(org_match[1][1]) ELSE "Unknown", "">>,
                    <<"Previous Joining Date", "2018-02-01", "">> >>
                 \o (IF end_year_match # None
                     THEN << <<"Previous end year", end_year_match[1][1], "">> >>
                     ELSE <<>>)
                 \o (IF prev_role_match # None
                     THEN << <<"Previous Starting Designation", strip(prev_role_match[1][1]),
                               "Promoted in 2019">> >>
                     ELSE <<>>))
       ELSE Done(<<>>)

\* lines 166-174
HighSchoolBlock(sents) ==
    LET hs_sent == find_sentence(sents, <<"high school">>)
        school_match == SearchLazy(hs_sent[1], "education at ", {","}, FALSE)
        year_match == SearchYear(hs_sent[1], "in ")
        context == Or(find_sentence(sents, <<"core subjects">>), Some(""))[1]
        score_match == re_score(hs_sent[1])
    IN IF Truthy(hs_sent)
       THEN Done(<< <<"High School",
                      IF school_match # None THEN school_match[1][1] ELSE "Unknown", "">>,
                    <<"12th standard pass out year",
                      IF year_match # None THEN year_match[1][1] ELSE "", context>>,
                    <<"12th overall board score",
                      IF score_match # None THEN score_match[1][1] ELSE "0.925",
                      "Outstanding achievement">> >>)
       ELSE Done(<<>>)

\* lines 176-185
UndergradBlock(sents) ==
    LET ug_sent == Or(find_sentence(sents, <<"B.Tech">>), find_sentence(sents, <<"Bachelor">>))
        deg_match == SearchLazy(ug_sent[1], "B.Tech in ", {" at", "from"}, FALSE)
        degree == << <<"Undergraduate degree",
                       IF deg_match # None THEN "B.Tech (" \o strip(deg_match[1][1]) \o ")"
                                           ELSE "B.Tech", "">> >>
        ug_college == get_entity(ug_sent[1], "ORG")
        year_match == SearchYear(ug_sent[1], "in ")
        cgpa_match == SearchLazy(ug_sent[1], "CGPA of ", {" on"}, FALSE)
    IN IF ~Truthy(ug_sent) THEN Done(<<>>)
       ELSE IF ug_college.raised THEN Raised(degree, "NlpError")
       ELSE Done(degree \o
                 << <<"Undergraduate college",
                      IF Truthy(ug_college.value) THEN ug_college.value[1] ELSE "Unknown", "">>,
                    <<"Undergraduate year",
                      IF year_match # None THEN year_match[1][1] ELSE "", "Graduating with honors...">>,
                    <<"Undergraduate CGPA",
                      IF cgpa_match # None THEN strip(cgpa_match[1][1]) ELSE "", "On a 10-point scale">> >>)

\* lines 187-197
GradBlock(sents) ==
    LET grad_sent == Or(find_sentence(sents, <<"M.Tech">>), find_sentence(sents, <<"Master">>))
        deg_match == SearchLazy(grad_sent[1], "M.Tech in ", {" in", "from"}, FALSE)
        degree == << <<"Graduation degree",
                       IF deg_match # None THEN "M.Tech (" \o strip(deg_match[1][1]) \o ")"
                                           ELSE "M.Tech", "">> >>
        grad_college == get_entity(grad_sent[1], "ORG")
        year_match == SearchYear(grad_sent[1], "in ")
        cgpa_match == SearchLazy(grad_sent[1], "CGPA of ", {" and"}, FALSE)
        grad_context == Or(find_sentence(sents, <<"thesis", "scoring">>), Some(""))[1]
    IN IF ~Truthy(grad_sent) THEN Done(<<>>)
       ELSE IF grad_college.raised THEN Raised(degree, "NlpError")
       ELSE Done(degree \o
                 << <<"Graduation college",
                      IF Truthy(grad_college.value) THEN grad_college.value[1] ELSE "Unknown",
                      "Continued academic excellence...">>,
                    <<"Graduation year", IF year_match # None THEN year_match[1][1] ELSE "", "">>,
                    <<"Graduation CGPA",
                      IF cgpa_match # None THEN strip(cgpa_match[1][1]) ELSE "", grad_context>> >>)

\* lines 200-201
cert_keywords == <<"certification", "exam", "score", "passed">>

potential_cert_sentences(sents) ==
    LET keep == {i \in 1..Len(sents) :
                   \E n \in 1..Len(cert_keywords) : Contains(lower(sents[i]), cert_keywords[n])}
        F[n \in 0..Len(sents)] ==
            IF n = 0 THEN <<>>
            ELSE IF n \in keep THEN Append(F[n - 1], sents[n]) ELSE F[n - 1]
    IN F[Len(sents)]

\* line 205: the cap tested before each candidate sentence
MaxCerts == 4

\* line 209
cert_denylist == {"PMI", "India"}

\* line 207: the entities of the sentence not yet in seen, filtered before the inner loop runs
relevant_ents(ents, seen) ==
    LET texts == EntTexts(ents, {"ORG", "PRODUCT", "GPE"})
        keep == {i \in 1..Len(texts) : texts[i] \notin seen}
        F[n \in 0..Len(texts)] ==
            IF n = 0 THEN <<>>
            ELSE IF n \in keep THEN Append(F[n - 1], texts[n]) ELSE F[n - 1]
    IN F[Len(texts)]

RECURSIVE CertInnerLoop(_, _, _)
\* lines 208-212 for one sentence: [emits, counter, seen] after the entities ents,
\* from st = [emits, counter, seen]
CertInnerLoop(ents, sent, st) ==
    IF ents = <<>> THEN st
    ELSE IF Head(ents) \in cert_denylist THEN CertInnerLoop(Tail(ents), sent, st)
    ELSE CertInnerLoop(Tail(ents), sent,
             [emits |-> Append(st.emits, <<"Certifications " \o ToString(st.counter), Head(ents), sent>>),
              counter |-> st.counter + 1,
              seen |-> st.seen \cup {Head(ents)}])

\* lines 215-217
SkillsBlock(sents) ==
    LET full_text == full_text_of(sents)
        start == Find(lower(full_text), "in terms of technical proficiency")
        \* full_text[start:], where find's -1 selects the last character
        tail == IF start = 0 THEN From(full_text, Len(full_text)) ELSE From(full_text, start)
    IN IF Contains(lower(full_text), "technical proficiency")
       THEN Done(<< <<"Technical Proficiency", "", strip(tail)>> >>)
       ELSE Done(<<>>)

(***************************************************************************)
(* Inputs: the PDFs that may be uploaded.  A page is its extracted text.   *)
(***************************************************************************)
PagePool ==
    { "John Smith was born in Jaipur, Rajasthan on 1989-03-15.\nHe is 35 years old.",
      "Madonna is an Indian national with O+ blood group.",
      "He is a citi-\nzen. He attended high\nschool. He holds a Master degree.",
      "He began as a Clerk with a salary of 350,000 INR. He worked at Wipro Solutions from 2018 to 2021, starting as a Analyst and up. In his current job he serves as a Lead earning 2,800,000 INR at Infosys. This salary progression is steep.",
      "His high school education at DPS, in 2007 had 92.5% overall. He did a B.Tech in Physics at IIT Delhi in 2011 with a CGPA of 8.7 on 10.",
      "He passed the AWS exam and the AWS certification by Microsoft, Google, Oracle and PMI in India.",
      "His Azure and AWS certification score was high. In terms of technical proficiency he knows Python.",
      "" }

SeqsUpTo(S, n) == UNION {[1..k -> S] : k \in 0..n}

Files ==
    {[readable |-> FALSE, pages |-> <<>>]} \cup
    {[readable |-> TRUE, pages |-> p] : p \in SeqsUpTo(PagePool, MaxPages)}

\* inputs of the find_sentence calls of FindSpec
FindSentencePool == {"", "b", "ab", "AB", "Ba"}

FindKeywordPool == {"", "a", "B", "ab"}

(***************************************************************************)
(* The script.  Streamlit runs it from the top on every interaction.       *)
(***************************************************************************)
Globals == [FINAL_DATA_ROWS |-> FINAL_DATA_ROWS, ROW_COUNTER |-> ROW_COUNTER]

\* the reset without its `ROW_COUNTER = 1`
reset_globals_keep_counter(g) == [FINAL_DATA_ROWS |-> <<>>, ROW_COUNTER |-> g.ROW_COUNTER]

\* FINAL_DATA_ROWS = [] ; ROW_COUNTER = 1 (lines 235-236, and 68-69 at the top of the script)
reset_globals(g) == [FINAL_DATA_ROWS |-> <<>>, ROW_COUNTER |-> 1]

RECURSIVE add_data_rows(_, _)
\* the add_data_row calls of a block, in order
add_data_rows(g, emits) ==
    IF emits = <<>> THEN g
    ELSE add_data_rows(add_data_row(g, Head(emits)[1], Head(emits)[2], Head(emits)[3]), Tail(emits))

Terminal == {"done", "crashed"}

Init ==
    /\ pc = "idle"
    /\ nlp_model \in NlpModels
    /\ uploaded_file = None
    /\ raw_text = None
    /\ sentences = <<>>
    /\ FINAL_DATA_ROWS = <<>>
    /\ ROW_COUNTER = 1
    /\ cert_i = 1
    /\ cert_counter = 1
    /\ seen_certs = {}
    /\ ui = ""
    /\ exc = ""
    /\ last_output = None
    /\ fs_sentences = <<>>
    /\ fs_keywords = <<>>
    /\ fs_result = None

\* a run of the script from its top (lines 1-229) with `file` in the uploader
ScriptStart(file, history) ==
    /\ uploaded_file' = Some(file)
    /\ FINAL_DATA_ROWS' = reset_globals(Globals).FINAL_DATA_ROWS
    /\ ROW_COUNTER' = reset_globals(Globals).ROW_COUNTER
    /\ raw_text' = None
    /\ sentences' = <<>>
    /\ cert_i' = 1
    /\ cert_counter' = 1
    /\ seen_certs' = {}
    /\ ui' = ""
    /\ exc' = ""
    /\ last_output' = history
    /\ pc' = "read"
    /\ UNCHANGED <<nlp_model, fs_sentences, fs_keywords, fs_result>>

\* the user puts a PDF in the empty uploader
Upload ==
    /\ pc = "idle"
    /\ \E file \in Files : ScriptStart(file, None)

\* the user removes the PDF: the script runs with uploaded_file None (line 229 fails)
RemoveFile ==
    /\ pc \in Terminal
    /\ uploaded_file' = None
    /\ FINAL_DATA_ROWS' = reset_globals(Globals).FINAL_DATA_ROWS
    /\ ROW_COUNTER' = reset_globals(Globals).ROW_COUNTER
    /\ raw_text' = None
    /\ sentences' = <<>>
    /\ cert_i' = 1
    /\ cert_counter' = 1
    /\ seen_certs' = {}
    /\ ui' = ""
    /\ exc' = ""
    /\ last_output' = None
    /\ pc' = "idle"
    /\ UNCHANGED <<nlp_model, fs_sentences, fs_keywords, fs_result>>

\* the script runs again on the same upload (any later interaction with the page)
Rerun ==
    /\ pc \in Terminal
    /\ uploaded_file # None
    /\ ScriptStart(uploaded_file[1], Some([rows |-> FINAL_DATA_ROWS, pc |-> pc, ui |-> ui, exc |-> exc]))

\* line 231, with the st.error of extract_text_from_uploaded_file
ReadFile ==
    /\ pc = "read"
    /\ raw_text' = extract_text_from_uploaded_file(uploaded_file[1])
    /\ ui' = IF uploaded_file[1].readable THEN ui ELSE "error"
    /\ pc' = "handle"
    /\ UNCHANGED <<nlp_model, uploaded_file, sentences, FINAL_DATA_ROWS, ROW_COUNTER, cert_i,
                   cert_counter, seen_certs, exc, last_output, fs_sentences, fs_keywords, fs_result>>

\* lines 233-236: `if raw_text:` holds
BeginExtraction ==
    /\ pc = "handle"
    /\ Truthy(raw_text)
    /\ sentences' = clean_and_segment_text(raw_text[1])
    /\ FINAL_DATA_ROWS' = reset_globals(Globals).FINAL_DATA_ROWS
    /\ ROW_COUNTER' = reset_globals(Globals).ROW_COUNTER
    /\ pc' = "name"
    /\ UNCHANGED <<nlp_model, uploaded_file, raw_text, cert_i, cert_counter, seen_certs, ui, exc,
                   last_output, fs_sentences, fs_keywords, fs_result>>

\* line 233: `if raw_text:` fails (None or ""), and the script ends with nothing more shown
SkipExtraction ==
    /\ pc = "handle"
    /\ ~Truthy(raw_text)
    /\ pc' = "done"
    /\ UNCHANGED <<nlp_model, uploaded_file, raw_text, sentences, FINAL_DATA_ROWS, ROW_COUNTER,
                   cert_i, cert_counter, seen_certs, ui, exc, last_output, fs_sentences,
                   fs_keywords, fs_result>>

\* one block of perform_general_extraction: its rows are added, and an exception ends the run
RunBlock(at, next, block) ==
    /\ pc = at
    /\ LET result == block
           g == add_data_rows(Globals, result.emits)
       IN /\ FINAL_DATA_ROWS' = g.FINAL_DATA_ROWS
          /\ ROW_COUNTER' = g.ROW_COUNTER
          /\ exc' = result.exc
          /\ pc' = IF result.exc = "" THEN next ELSE "crashed"
    /\ UNCHANGED <<nlp_model, uploaded_file, raw_text, sentences, cert_i, cert_counter,
                   seen_certs, ui, last_output, fs_sentences, fs_keywords, fs_result>>

ExtractName == RunBlock("name", "dob", NameBlock(sentences))

ExtractDob == RunBlock("dob", "birth", DobBlock(sentences))

ExtractBirth == RunBlock("birth", "age", BirthBlock(sentences))

ExtractAge == RunBlock("age", "blood", AgeBlock(sentences))

ExtractBlood == RunBlock("blood", "nationality", BloodBlock(sentences))

ExtractNationality == RunBlock("nationality", "first_role", NationalityBlock(sentences))

ExtractFirstRole == RunBlock("first_role", "current", FirstRoleBlock(sentences))

ExtractCurrent == RunBlock("current", "previous", CurrentBlock(sentences))

ExtractPrevious == RunBlock("previous", "high_school", PreviousBlock(sentences))

ExtractHighSchool == RunBlock("high_school", "undergrad", HighSchoolBlock(sentences))

ExtractUndergrad == RunBlock("undergrad", "grad", UndergradBlock(sentences))

ExtractGrad == RunBlock("grad", "cert_init", GradBlock(sentences))

\* lines 200-203
CertInit ==
    /\ pc = "cert_init"
    /\ cert_i' = 1
    /\ cert_counter' = 1
    /\ seen_certs' = {}
    /\ pc' = "certs"
    /\ UNCHANGED <<nlp_model, uploaded_file, raw_text, sentences, FINAL_DATA_ROWS, ROW_COUNTER,
                   ui, exc, last_output, fs_sentences, fs_keywords, fs_result>>

\* lines 204-212: one iteration of `for sent in potential_cert_sentences`
CertSentence ==
    /\ pc = "certs"
    /\ cert_i <= Len(potential_cert_sentences(sentences))
    /\ ~(cert_counter > MaxCerts)
    /\ LET sent == potential_cert_sentences(sentences)[cert_i]
           doc == nlp(sent)
           st == CertInnerLoop(relevant_ents(doc.ents, seen_certs), sent,
                               [emits |-> <<>>, counter |-> cert_counter, seen |-> seen_certs])
       IN IF doc.raised
          THEN /\ exc' = "NlpError"
               /\ pc' = "crashed"
               /\ UNCHANGED <<FINAL_DATA_ROWS, ROW_COUNTER, cert_i, cert_counter, seen_certs>>
          ELSE /\ FINAL_DATA_ROWS' = add_data_rows(Globals, st.emits).FINAL_DATA_ROWS
               /\ ROW_COUNTER' = add_data_rows(Globals, st.emits).ROW_COUNTER
               /\ cert_counter' = st.counter
               /\ seen_certs' = st.seen
               /\ cert_i' = cert_i + 1
               /\ UNCHANGED <<exc, pc>>
    /\ UNCHANGED <<nlp_model, uploaded_file, raw_text, sentences, ui, last_output,
                   fs_sentences, fs_keywords, fs_result>>

\* the loop ends: no candidate sentence is left, or line 205 breaks
CertLoopEnd ==
    /\ pc = "certs"
    /\ cert_i > Len(potential_cert_sentences(sentences)) \/ cert_counter > MaxCerts
    /\ pc' = "skills"
    /\ UNCHANGED <<nlp_model, uploaded_file, raw_text, sentences, FINAL_DATA_ROWS, ROW_COUNTER,
                   cert_i, cert_counter, seen_certs, ui, exc, last_output, fs_sentences,
                   fs_keywords, fs_result>>

ExtractSkills == RunBlock("skills", "display", SkillsBlock(sentences))

\* lines 239-259: the table and the download, or "No data could be extracted."
Display ==
    /\ pc = "display"
    /\ ui' = IF FINAL_DATA_ROWS # <<>> THEN "success" ELSE "warning"
    /\ pc' = "done"
    /\ UNCHANGED <<nlp_model, uploaded_file, raw_text, sentences, FINAL_DATA_ROWS, ROW_COUNTER,
                   cert_i, cert_counter, seen_certs, exc, last_output, fs_sentences,
                   fs_keywords, fs_result>>

Next ==
    \/ Upload
    \/ RemoveFile
    \/ Rerun
    \/ ReadFile
    \/ BeginExtraction
    \/ SkipExtraction
    \/ ExtractName
    \/ ExtractDob
    \/ ExtractBirth
    \/ ExtractAge
    \/ ExtractBlood
    \/ ExtractNationality
    \/ ExtractFirstRole
    \/ ExtractCurrent
    \/ ExtractPrevious
    \/ ExtractHighSchool
    \/ ExtractUndergrad
    \/ ExtractGrad
    \/ CertInit
    \/ CertSentence
    \/ CertLoopEnd
    \/ ExtractSkills
    \/ Display

Spec == Init /\ [][Next]_vars

(***************************************************************************)
(* find_sentence as a pure function: the arguments are drawn from small    *)
(* sets and the call is one step.                                          *)
(***************************************************************************)
FindInit ==
    /\ pc = "find_call"
    /\ nlp_model = [fault_on |-> None]
    /\ uploaded_file = None
    /\ raw_text = None
    /\ sentences = <<>>
    /\ FINAL_DATA_ROWS = <<>>
    /\ ROW_COUNTER = 1
    /\ cert_i = 1
    /\ cert_counter = 1
    /\ seen_certs = {}
    /\ ui = ""
    /\ exc = ""
    /\ last_output = None
    /\ fs_sentences \in SeqsUpTo(FindSentencePool, MaxFindSents)
    /\ fs_keywords \in SeqsUpTo(FindKeywordPool, MaxKeywords)
    /\ fs_result = None

FindCall ==
    /\ pc = "find_call"
    /\ fs_result' = Some(find_sentence(fs_sentences, fs_keywords))
    /\ pc' = "find_return"
    /\ UNCHANGED <<nlp_model, uploaded_file, raw_text, sentences, FINAL_DATA_ROWS, ROW_COUNTER,
                   cert_i, cert_counter, seen_certs, ui, exc, last_output, fs_sentences,
                   fs_keywords>>

FindNext == FindCall

FindSpec == FindInit /\ [][FindNext]_vars

(***************************************************************************)
(* The keys perform_general_extraction can emit (lines 91-217).            *)
(***************************************************************************)
SchemaKeys ==
    { "First Name", "Last Name", "Date of Birth", "Birth City", "Birth State", "Age",
      "Blood Group", "Nationality",
      "Joining Date of first professional role", "Designation of first professional role",
      "Salary of first professional role", "Salary currency of first professional role",
      "Current Organization", "Current Joining Date", "Current Designation", "Current Salary",
      "Current Salary Currency",
      "Previous Organization", "Previous Joining Date", "Previous end year",
      "Previous Starting Designation",
      "High School", "12th standard pass out year", "12th overall board score",
      "Undergraduate degree", "Undergraduate college", "Undergraduate year", "Undergraduate CGPA",
      "Graduation degree", "Graduation college", "Graduation year", "Graduation CGPA",
      "Certifications 1", "Certifications 2", "Certifications 3", "Certifications 4",
      "Technical Proficiency" }

(***************************************************************************)
(* Properties.                                                             *)
(***************************************************************************)
RowsWithKey(k) == {i \in 1..Len(FINAL_DATA_ROWS) : FINAL_DATA_ROWS[i]["Key"] = k}

CertRows == {i \in 1..Len(FINAL_DATA_ROWS) : LitAt(FINAL_DATA_ROWS[i]["Key"], 1, "Certifications ")}

\* C1: the "#" of the rows of a run are 1, 2, ..., n in emission order: the i-th row
\* emitted carries i, at every point of every run (first run or a later one).
C1_RowNumbersContiguous ==
    \A i \in 1..Len(FINAL_DATA_ROWS) : FINAL_DATA_ROWS[i]["#"] = i

\* a second run on the same upload has completed with several rows
C1_Witness ==
    /\ pc = "done"
    /\ last_output # None
    /\ Len(FINAL_DATA_ROWS) >= 5

\* C2: a completed run on a non-empty document emits every key of the schema exactly
\* once (an empty value standing for an unresolved field).
C2_FullSchema ==
    (pc = "done" /\ sentences # <<>>) =>
        \A k \in SchemaKeys : Cardinality(RowsWithKey(k)) = 1

\* C3: a run that follows a run on the same upload ends as that run ended: the same
\* rows ("#", Key, Value, Comments, in order), the same message and the same outcome.
C3_Idempotent ==
    (pc \in Terminal /\ last_output # None) =>
        last_output[1] = [rows |-> FINAL_DATA_ROWS, pc |-> pc, ui |-> ui, exc |-> exc]

\* a second run on the same upload has ended, the first having emitted rows
C3_Witness ==
    /\ pc \in Terminal
    /\ last_output # None
    /\ Len(last_output[1].rows) >= 2

\* the raw text is None or empty, or it normalizes to the empty sentence list
EmptyInput == ~Truthy(raw_text) \/ clean_and_segment_text(raw_text[1]) = <<>>

\* C4: a run on an empty or unreadable document ends without an uncaught exception,
\* with zero rows and with the "nothing extracted" signal shown: the warning "No data
\* could be extracted." (the error message of an unreadable PDF is counted as one too).
C4_EmptyInputSignalled ==
    (pc \in Terminal /\ EmptyInput) =>
        (exc = "" /\ FINAL_DATA_ROWS = <<>> /\ ui \in {"warning", "error"})

\* C5: a fault of the entity recogniser never ends the run: no run stops on an
\* exception raised by an nlp(...) call.
C5_FaultContained == exc # "NlpError"

\* v is empty, or text of the document, or text of the document in one of the
\* formats the extractor gives a capture ("<n> years", "B.Tech (<x>)", "M.Tech (<x>)")
DerivedFromDocument(v) ==
    LET full_text == full_text_of(sentences)
        Wrapped(a, b) ==
            /\ Len(v) > Len(a) + Len(b)
            /\ LitAt(v, 1, a)
            /\ LitAt(v, Len(v) - Len(b) + 1, b)
            /\ Contains(full_text, SubSeq(v, Len(a) + 1, Len(v) - Len(b)))
    IN \/ v = ""
       \/ Contains(full_text, v)
       \/ Wrapped("", " years")
       \/ Wrapped("B.Tech (", ")")
       \/ Wrapped("M.Tech (", ")")

\* C6: the Value of every emitted row is empty or derived from the text of the
\* document, never a constant of the program.
C6_NoFabricatedValues ==
    \A i \in 1..Len(FINAL_DATA_ROWS) : DerivedFromDocument(FINAL_DATA_ROWS[i]["Value"])

\* exact comparison of two characters up to case
SameLetter(a, b) ==
    \/ a = b
    \/ a \in Upper /\ ToLower[a] = b
    \/ b \in Upper /\ ToLower[b] = a

\* k is a case-insensitive substring of sent
HasKeyword(sent, k) ==
    \E i \in 1..(Len(sent) - Len(k) + 1) :
        \A j \in 1..Len(k) : SameLetter(Ch(sent, i + j - 1), Ch(k, j))

\* the positions of the sentences that contain every keyword
Qualifying(sents, keywords) ==
    {i \in 1..Len(sents) : \A n \in 1..Len(keywords) : HasKeyword(sents[i], keywords[n])}

\* C7: find_sentence returns the sentence of lowest index that contains every keyword
\* as a case-insensitive substring, and None exactly when no sentence does.
C7_FindSentenceFirstMatch ==
    fs_result # None =>
        IF Qualifying(fs_sentences, fs_keywords) = {}
        THEN fs_result[1] = None
        ELSE fs_result[1] = Some(fs_sentences[Least(Qualifying(fs_sentences, fs_keywords))])

\* a call that skipped a sentence and returned a later one, matched only up to case
C7_Witness ==
    /\ fs_result # None
    /\ fs_result[1] # None
    /\ Len(fs_sentences) >= 2
    /\ fs_result[1][1] = fs_sentences[2]
    /\ fs_sentences[1] # fs_sentences[2]
    /\ \E n \in 1..Len(fs_keywords) :
          fs_keywords[n] # "" /\ ~Contains(fs_sentences[2], fs_keywords[n])

\* the name the run accepted: the first PERSON entity of the intro sentence (lines 86-89)
AcceptedName ==
    LET found == find_sentence(sentences, <<"born">>)
        intro_sent == IF Truthy(found) THEN found[1] ELSE sentences[1]
        person_ents == EntTexts(nlp(intro_sent).ents, {"PERSON"})
    IN IF sentences = <<>> \/ nlp(intro_sent).raised \/ person_ents = <<>>
       THEN None
       ELSE Some(person_ents[1])

\* C8: once the name rows are emitted, First Name is the first token of the accepted
\* name and Last Name is its last token, or empty when the name has one token.
C8_NameSplit ==
    (RowsWithKey("Last Name") # {} /\ AcceptedName # None) =>
        LET name_parts == split(AcceptedName[1])
        IN /\ FINAL_DATA_ROWS[1]["Key"] = "First Name"
           /\ FINAL_DATA_ROWS[1]["Value"] = name_parts[1]
           /\ FINAL_DATA_ROWS[2]["Key"] = "Last Name"
           /\ FINAL_DATA_ROWS[2]["Value"] =
                 (IF Len(name_parts) = 1 THEN "" ELSE name_parts[Len(name_parts)])

\* the place <<sentence, span>> of the first qualifying entity with text v in the
\* candidate sentences, <<0, 0>> when there is none
FirstPlace(v) ==
    LET cands == potential_cert_sentences(sentences)
        Spans(m) == EntTexts(nlp(cands[m]).ents, {"ORG", "PRODUCT", "GPE"})
        places == {pl \in (1..Len(cands)) \X (1..40) :
                     pl[2] <= Len(Spans(pl[1])) /\ Spans(pl[1])[pl[2]] = v}
    IN IF places = {} THEN <<0, 0>>
       ELSE CHOOSE pl \in places :
                \A q \in places : pl[1] < q[1] \/ (pl[1] = q[1] /\ pl[2] <= q[2])

\* C9: no two certification rows carry the same entity text, none carries a
\* denylisted span, and the rows are in input order (sentence, then span).
C9_CertsDeduplicated ==
    /\ \A i, j \in CertRows :
          i # j => FINAL_DATA_ROWS[i]["Value"] # FINAL_DATA_ROWS[j]["Value"]
    /\ \A i \in CertRows : FINAL_DATA_ROWS[i]["Value"] \notin cert_denylist
    /\ \A i, j \in CertRows :
          i < j =>
            LET a == FirstPlace(FINAL_DATA_ROWS[i]["Value"])
                b == FirstPlace(FINAL_DATA_ROWS[j]["Value"])
            IN a[1] < b[1] \/ (a[1] = b[1] /\ a[2] <= b[2])

\* C10: a run emits at most 4 certification rows, under the keys "Certifications 1"
\* to "Certifications 4".
C10_CertCap ==
    /\ Cardinality(CertRows) <= MaxCerts
    /\ \A i \in CertRows :
          FINAL_DATA_ROWS[i]["Key"] \in {"Certifications " \o ToString(n) : n \in 1..MaxCerts}
====
